---- MODULE Spec2Model ----
(***************************************************************************)
(* A model of stanfordner/client.py: the Python wrapper of the Stanford    *)
(* NER server.  Text is a sequence of one-character strings.  The three    *)
(* regular expressions of the module are written as sequences of pattern   *)
(* items and run by a backtracking matcher that follows the priorities of  *)
(* Python's re module (lazy quantifiers shortest first, greedy quantifiers *)
(* longest first, finditer scanning left to right without overlap).        *)
(***************************************************************************)
EXTENDS Integers, Sequences, FiniteSets

\* ------------------------------------------------------------------ text

\* The vertical tab, which has no escape in a TLA+ string.
VT == "VT"

\* The characters the model uses, in ASCII order: str comparison, which
\* sorted() uses on the entity types, is by character code.
Ascii ==
    <<"\t", "\n", VT, "\f", "\r", " ", "\"", "/",
      "0", "1", "2", "3", "4", "5", "6", "7", "8", "9", "<", "=", ">",
      "A", "B", "C", "D", "E", "F", "G", "H", "I", "J", "K", "L", "M",
      "N", "O", "P", "Q", "R", "S", "T", "U", "V", "W", "X", "Y", "Z",
      "a", "b", "c", "d", "e", "f", "g", "h", "i", "j", "k", "l", "m",
      "n", "o", "p", "q", "r", "s", "t", "u", "v", "w", "x", "y", "z">>

Ord(c) == CHOOSE i \in DOMAIN Ascii : Ascii[i] = c

Upper ==
    {"A", "B", "C", "D", "E", "F", "G", "H", "I", "J", "K", "L", "M",
     "N", "O", "P", "Q", "R", "S", "T", "U", "V", "W", "X", "Y", "Z"}

\* \s of a Python 2 byte-string pattern.
Whitespace == {" ", "\t", "\n", "\r", "\f", VT}

\* x < y on str: lexicographic by character code.
RECURSIVE StrLess(_, _)
StrLess(x, y) ==
    IF y = <<>> THEN FALSE
    ELSE IF x = <<>> THEN TRUE
    ELSE IF x[1] = y[1] THEN StrLess(Tail(x), Tail(y))
    ELSE Ord(x[1]) < Ord(y[1])

\* sep.join(strs)
RECURSIVE join(_, _)
join(sep, strs) ==
    IF strs = <<>> THEN <<>>
    ELSE IF Len(strs) = 1 THEN strs[1]
    ELSE strs[1] \o sep \o join(sep, Tail(strs))

\* ----------------------------------------------------------------- regex

\* Pattern items: a literal, a lazy X+? or a greedy X+ / X* over a character
\* class (g names the capturing group, 0 for none), a backreference \g.
Lit(s) == [k |-> "lit", s |-> s, cls |-> "none", min |-> 0, g |-> 0]
Lazy(cls, g) == [k |-> "lazy", s |-> <<>>, cls |-> cls, min |-> 1, g |-> g]
Greedy(cls, min, g) == [k |-> "greedy", s |-> <<>>, cls |-> cls, min |-> min, g |-> g]
BackRef(g) == [k |-> "ref", s |-> <<>>, cls |-> "none", min |-> 0, g |-> g]

\* "." matches anything but a newline (no DOTALL flag).
InClass(c, cls) ==
    CASE cls = "dot" -> c # "\n"
      [] cls = "upper" -> c \in Upper
      [] cls = "space" -> c \in Whitespace

HasAt(text, pos, s) ==
    /\ pos + Len(s) - 1 <= Len(text)
    /\ \A j \in 1..Len(s) : text[pos + j - 1] = s[j]

Min(S) == CHOOSE x \in S : \A y \in S : x <= y

Max(S) == CHOOSE x \in S : \A y \in S : x >= y

\* The length of the longest run of cls characters of text from pos on.
RunLen(text, pos, cls) ==
    LET stops == {j \in pos..Len(text) : ~InClass(text[j], cls)}
    IN IF stops = {} THEN Len(text) - pos + 1 ELSE Min(stops) - pos

NoMatch == [ok |-> FALSE, end |-> 0, grp |-> <<>>]

SetGroup(grp, g, s) == IF g = 0 THEN grp ELSE [grp EXCEPT ![g] = s]

\* The match of items i.. of pat at pos, the first one in backtracking order:
\* a lazy X+? takes the fewest characters with which the rest matches, a
\* greedy X+ or X* the most.
RECURSIVE MatchFrom(_, _, _, _, _)
MatchFrom(pat, text, i, pos, grp) ==
    IF i > Len(pat) THEN [ok |-> TRUE, end |-> pos, grp |-> grp]
    ELSE LET it == pat[i]
             rest(n) == MatchFrom(pat, text, i + 1, pos + n,
                                  SetGroup(grp, it.g, SubSeq(text, pos, pos + n - 1)))
             lens == it.min..RunLen(text, pos, it.cls)
         IN CASE it.k = "lit" ->
                   IF HasAt(text, pos, it.s)
                   THEN MatchFrom(pat, text, i + 1, pos + Len(it.s), grp)
                   ELSE NoMatch
              [] it.k = "ref" ->
                   IF HasAt(text, pos, grp[it.g])
                   THEN MatchFrom(pat, text, i + 1, pos + Len(grp[it.g]), grp)
                   ELSE NoMatch
              [] it.k = "lazy" ->
                   IF \E n \in lens : rest(n).ok
                   THEN rest(CHOOSE n \in lens :
                                 rest(n).ok /\ \A m \in it.min..(n - 1) : ~rest(m).ok)
                   ELSE NoMatch
              [] it.k = "greedy" ->
                   IF \E n \in lens : rest(n).ok
                   THEN rest(CHOOSE n \in lens :
                                 rest(n).ok /\ \A m \in (n + 1)..Max(lens) : ~rest(m).ok)
                   ELSE NoMatch

\* pattern.finditer(text): the groups of the non-overlapping matches, left to
\* right, each at the first position from pos on where the pattern matches;
\* after an empty match the scan moves one character on.
RECURSIVE finditer_from(_, _, _, _)
finditer_from(pat, ngroups, text, pos) ==
    LET at(s) == MatchFrom(pat, text, 1, s, [g \in 1..ngroups |-> <<>>])
        starts == pos..(Len(text) + 1)
    IN IF \E s \in starts : at(s).ok
       THEN LET first == CHOOSE s \in starts :
                             at(s).ok /\ \A t \in pos..(s - 1) : ~at(t).ok
                r == at(first)
            IN <<r.grp>> \o finditer_from(pat, ngroups, text,
                                          IF r.end = first THEN r.end + 1 ELSE r.end)
       ELSE <<>>

finditer(pat, text) == finditer_from(pat, 2, text, 1)

\* (.+?)/([A-Z]+)\s*
SLASHTAGS_EPATTERN ==
    <<Lazy("dot", 1), Lit(<<"/">>), Greedy("upper", 1, 2), Greedy("space", 0, 0)>>

\* <wi num=".+?" entity="(.+?)">(.+?)</wi>
XML_EPATTERN ==
    <<Lit(<<"<", "w", "i", " ", "n", "u", "m", "=", "\"">>), Lazy("dot", 0),
      Lit(<<"\"", " ", "e", "n", "t", "i", "t", "y", "=", "\"">>), Lazy("dot", 1),
      Lit(<<"\"", ">">>), Lazy("dot", 2), Lit(<<"<", "/", "w", "i", ">">>)>>

\* <([A-Z]+?)>(.+?)</\1>
INLINEXML_EPATTERN ==
    <<Lit(<<"<">>), Lazy("upper", 1), Lit(<<">">>), Lazy("dot", 2),
      Lit(<<"<", "/">>), BackRef(1), Lit(<<">">>)>>

\* ---------------------------------------------------------------- parser

\* The pairs <<entity_type, token>>: match.groups()[::-1].
slashTags_parse_entities(tagged_text) ==
    LET ms == finditer(SLASHTAGS_EPATTERN, tagged_text)
    IN [n \in 1..Len(ms) |-> <<ms[n][2], ms[n][1]>>]

xml_parse_entities(tagged_text) == finditer(XML_EPATTERN, tagged_text)

inlineXML_parse_entities(tagged_text) == finditer(INLINEXML_EPATTERN, tagged_text)

\* ------------------------------------------------------------ aggregator

\* A sort that is not stable: an element goes before the elements with its key.
RECURSIVE sorted_unstable(_)
sorted_unstable(pairs) ==
    IF pairs = <<>> THEN <<>>
    ELSE LET s == sorted_unstable(SubSeq(pairs, 1, Len(pairs) - 1))
             x == pairs[Len(pairs)]
             n == Cardinality({j \in 1..Len(s) : StrLess(s[j][1], x[1])})
         IN SubSeq(s, 1, n) \o <<x>> \o SubSeq(s, n + 1, Len(s))

\* sorted(pairs, key=itemgetter(0)): a stable sort, so an element goes after
\* every element whose key is not greater than its own.
RECURSIVE sorted(_)
sorted(pairs) ==
    IF pairs = <<>> THEN <<>>
    ELSE LET s == sorted(SubSeq(pairs, 1, Len(pairs) - 1))
             x == pairs[Len(pairs)]
             n == Cardinality({j \in 1..Len(s) : ~StrLess(x[1], s[j][1])})
         IN SubSeq(s, 1, n) \o <<x>> \o SubSeq(s, n + 1, Len(s))

\* groupby(pairs, key=itemgetter(0)): the maximal runs of consecutive pairs
\* with one key, as <<key, run>>, in order.
RECURSIVE groupby(_)
groupby(pairs) ==
    IF pairs = <<>> THEN <<>>
    ELSE LET key == pairs[1][1]
             n == CHOOSE m \in 1..Len(pairs) :
                      /\ \A j \in 1..m : pairs[j][1] = key
                      /\ m = Len(pairs) \/ pairs[m + 1][1] # key
         IN <<<<key, SubSeq(pairs, 1, n)>>>> \o groupby(SubSeq(pairs, n + 1, Len(pairs)))

\* map(itemgetter(1), pairs)
seconds(pairs) == [j \in 1..Len(pairs) |-> pairs[j][2]]

\* dict(items): a later item replaces an earlier one with the same key.
dict(items) ==
    [key \in {items[j][1] : j \in 1..Len(items)} |->
        LET last == CHOOSE j \in 1..Len(items) :
                        /\ items[j][1] = key
                        /\ \A l \in 1..Len(items) : items[l][1] = key => l <= j
        IN items[last][2]]

collapse_to_dict(pairs) ==
    LET groups == groupby(sorted(pairs))
    IN dict([n \in 1..Len(groups) |-> <<groups[n][1], seconds(groups[n][2])>>])

\* Grouping all the tokens of a type, whether or not they are neighbours.
join_runs_global(entities) ==
    LET groups == groupby(sorted(entities))
    IN [n \in 1..Len(groups) |-> <<groups[n][1], join(<<" ">>, seconds(groups[n][2]))>>]

\* ((etype, " ".join(t[1] for t in tokens)) for (etype, tokens) in groupby(entities))
join_runs(entities) ==
    LET groups == groupby(entities)
    IN [n \in 1..Len(groups) |-> <<groups[n][1], join(<<" ">>, seconds(groups[n][2]))>>]

\* The inlineXML spans joined in runs like the tokens of the other formats.
entity_pairs_joining(oformat, tagged_text) ==
    IF oformat = "slashTags" THEN join_runs(slashTags_parse_entities(tagged_text))
    ELSE IF oformat = "xml" THEN join_runs(xml_parse_entities(tagged_text))
    ELSE join_runs(inlineXML_parse_entities(tagged_text))

\* The pairs get_entities hands to collapse_to_dict (lines 77-86).
entity_pairs(oformat, tagged_text) ==
    IF oformat = "slashTags" THEN join_runs(slashTags_parse_entities(tagged_text))
    ELSE IF oformat = "xml" THEN join_runs(xml_parse_entities(tagged_text))
    ELSE inlineXML_parse_entities(tagged_text)

\* A strict get_entities: text in which the grammar finds nothing is an error.
get_entities_strict(oformat, tagged_text) ==
    IF entity_pairs(oformat, tagged_text) = <<>>
    THEN [outcome |-> "raise", exc |-> "ValueError", value |-> <<>>]
    ELSE [outcome |-> "return", exc |-> "none",
          value |-> collapse_to_dict(entity_pairs(oformat, tagged_text))]

\* get_entities once tag_text has returned tagged_text: no statement of it
\* raises, and every operation it applies is defined on every str.
get_entities(oformat, tagged_text) ==
    [outcome |-> "return", exc |-> "none",
     value |-> collapse_to_dict(entity_pairs(oformat, tagged_text))]
\* ------------------------------------------------------------- transport

\* The tuple without its last character.
StripChars_short == <<"\f", "\n", "\r", "\t">>

\* for s in ('\f', '\n', '\r', '\t', '\v'): text = text.replace(s, '')
StripChars == <<"\f", "\n", "\r", "\t", VT>>

\* text.replace(s, '') for a one-character s
replace(text, s) == SelectSeq(text, LAMBDA c : c # s)

RECURSIVE strip(_, _)
strip(text, chars) ==
    IF chars = <<>> THEN text ELSE strip(replace(text, chars[1]), Tail(chars))

\* The text both tag_text methods send: stripped, then text += '\n'.
normalize(text) == strip(text, StripChars) \o <<"\n">>

\* s.recv(bufsize) of a reply that has arrived whole: at most bufsize characters.
recv(reply, bufsize) ==
    IF Len(reply) <= bufsize THEN reply ELSE SubSeq(reply, 1, bufsize)

\* recv(10*len(text))
RecvFactor == 10

\* What the network does to one call.  net: "refused" (the connection cannot
\* be opened), "send_error" (the send fails), "peer_closed" (the server closes
\* without answering), "reset" (the connection breaks while reading),
\* "replied".  shutdown_fails: shutdown() on the broken connection raises.
\* status: the status line of an HTTP answer.
SocketEnvs ==
    {[net |-> n, shutdown_fails |-> FALSE, status |-> 0] :
        n \in {"refused", "send_error", "peer_closed", "reset", "replied"}}
    \cup {[net |-> n, shutdown_fails |-> TRUE, status |-> 0] :
        n \in {"send_error", "reset"}}

HTTPEnvs ==
    {[net |-> n, shutdown_fails |-> FALSE, status |-> 0] :
        n \in {"refused", "send_error", "peer_closed", "reset"}}
    \cup {[net |-> "replied", shutdown_fails |-> FALSE, status |-> st] :
        st \in {200, 500}}

\* with tcpip4_socket(host, port) as s: the socket is created, connect() raises
\* when the connection is refused; the finally clause calls shutdown(), which
\* raises on a socket that is not connected, and only then close().
tcpip4_socket(env, body_raises) ==
    LET connected == env.net # "refused"
        shutdown_raises == ~connected \/ env.shutdown_fails
    IN [created |-> TRUE, entered |-> connected, closed |-> ~shutdown_raises,
        raises |-> ~connected \/ body_raises \/ shutdown_raises,
        exc |-> "socket.error"]

\* with http_connection(host, port) as c: nothing is opened before the body;
\* the finally clause calls close().
http_connection(env, body_raises, body_exc) ==
    [created |-> TRUE, entered |-> TRUE, closed |-> TRUE,
     raises |-> body_raises, exc |-> body_exc]

\* The body a server sends with an error status.
ErrorPage == <<"<", "B", ">", "E", "r", "r", "o", "r", "<", "/", "B", ">">>

\* StanfordNERSocket.tag_text
socket_tag_text(self, text, env, reply) ==
    LET payload == normalize(text)
        body_raises == env.net \in {"send_error", "reset"}
        cm == tcpip4_socket(env, body_raises)
        tagged_text == IF env.net = "replied"
                       THEN recv(reply, RecvFactor * Len(payload))
                       ELSE <<>>
    IN [payload |-> payload, sent |-> cm.entered,
        request |-> [input |-> payload],
        created |-> cm.created, closed |-> cm.closed,
        outcome |-> IF cm.raises THEN "raise" ELSE "return",
        exc |-> IF cm.raises THEN cm.exc ELSE "none",
        tagged |-> IF cm.raises THEN <<>> ELSE tagged_text]

\* StanfordNERHTTP.tag_text: request() raises socket.error when the connection
\* cannot be opened or the send fails, getresponse() raises BadStatusLine (an
\* HTTPException, caught and raised again) when the server closes without
\* answering; the status of an answer is not looked at.
http_tag_text(self, text, env, reply) ==
    LET payload == normalize(text)
        params == IF self.classifier # "None"
                  THEN [input |-> payload, outputFormat |-> self.oformat,
                        preserveSpacing |-> self.spacing,
                        classifier |-> self.classifier]
                  ELSE [input |-> payload, outputFormat |-> self.oformat,
                        preserveSpacing |-> self.spacing]
        body_raises == env.net # "replied"
        body_exc == IF env.net = "peer_closed" THEN "HTTPException" ELSE "socket.error"
        cm == http_connection(env, body_raises, body_exc)
        result == IF env.status = 200 THEN reply ELSE ErrorPage
    IN [payload |-> payload, sent |-> env.net # "refused",
        request |-> params,
        created |-> cm.created, closed |-> cm.closed,
        outcome |-> IF cm.raises THEN "raise" ELSE "return",
        exc |-> IF cm.raises THEN cm.exc ELSE "none",
        tagged |-> IF cm.raises THEN <<>> ELSE result]

tag_text(self, text, env, reply) ==
    IF self.variant = "socket" THEN socket_tag_text(self, text, env, reply)
    ELSE http_tag_text(self, text, env, reply)

\* ---------------------------------------------------------- construction

Formats == {"slashTags", "xml", "inlineXML"}

\* A test that takes the names of the formats in any case.
valid_output_format_anycase(output_format) ==
    output_format \in Formats \cup {"SlashTags", "XML", "InlineXML"}

\* if output_format not in ('slashTags', 'xml', 'inlineXML'): raise ...
valid_output_format(output_format) == output_format \in Formats

DefaultPort == 1234

\* StanfordNERSocket.__init__
StanfordNERSocket_init(host, port, output_format) ==
    IF ~valid_output_format(output_format)
    THEN [outcome |-> "raise", exc |-> "InvalidOutputFormat", self |-> [variant |-> "none"]]
    ELSE [outcome |-> "return", exc |-> "none",
          self |-> [variant |-> "socket", host |-> host, port |-> port,
                    oformat |-> output_format]]

\* StanfordNERHTTP.__init__
StanfordNERHTTP_init(host, port, location, classifier, output_format, preserve_spacing) ==
    IF ~valid_output_format(output_format)
    THEN [outcome |-> "raise", exc |-> "InvalidOutputFormat", self |-> [variant |-> "none"]]
    ELSE [outcome |-> "return", exc |-> "none",
          self |-> [variant |-> "http", host |-> host, port |-> port,
                    location |-> location, oformat |-> output_format,
                    classifier |-> classifier, spacing |-> preserve_spacing]]

\* ----------------------------------------------------------------- state

VARIABLES
    client,     \* the client object: its attributes, or NoClient before __init__
    server,     \* which answers the server gives (fixed over a run)
    last,       \* the latest operation: its arguments, what the network did, its outcome
    pin,        \* a get_entities result kept to compare later results with
    p_oformat,  \* get_entities in isolation: the client's format,
    p_tagged,   \*   the tagged text tag_text returned,
    p_result    \*   and what lines 77-87 make of it

vars == <<client, server, last, pin, p_oformat, p_tagged, p_result>>

\* ---------------------------------------------------------------- bounds

\* The texts whose normalization is followed are all strings of at most
\* MaxTextLen characters of TextChars.
MaxTextLen == 3

\* Tagged texts are made of at most MaxChunks chunks of one grammar.
MaxChunks == 3

\* --------------------------------------------------------------- inputs

RECURSIVE Concat(_)
Concat(ss) == IF ss = <<>> THEN <<>> ELSE ss[1] \o Concat(Tail(ss))

TextChars == {"a", "\f", "\n", "\r", "\t", VT}

MixedText1 ==
    <<"N", "e", "w", " ", "Y", "o", "r", "k", "\t", "i", "s", "\r", "\n", "b",
      "i", "g">>
MixedText2 ==
    <<"a", "\f", VT>>

\* The texts of the calls of a client's life.
Texts == {MixedText1, MixedText2}

\* The texts of the calls whose normalization is followed.
ShortTexts == UNION {[1..n -> TextChars] : n \in 0..MaxTextLen}

\* What a constructor may be given as output_format.
OutputFormats == Formats \cup {"json", "SlashTags", ""}

Classifiers == {"None", "english.muc"}

SlashReply ==
    <<"a", "/", "A", " ", "b", "/", "A", " ", "c", "/", "B">>
XmlReply ==
    <<"<", "w", "i", " ", "n", "u", "m", "=", "\"", "1", "\"", " ", "e", "n",
      "t", "i", "t", "y", "=", "\"", "A", "\"", ">", "a", "<", "/", "w", "i",
      ">">>
InlineReply ==
    <<"<", "A", ">", "a", "<", "/", "A", ">", "<", "B", ">", "b", "<", "/",
      "B", ">">>

\* The server: one answer to each normalized text, the same at every call.
Replies == <<SlashReply, XmlReply, InlineReply>>

Reply(srv, payload) == Replies[((srv + Len(payload)) % Len(Replies)) + 1]

SlashExample ==
    <<"N", "e", "w", "/", "L", "O", "C", "A", "T", "I", "O", "N", " ", "Y",
      "o", "r", "k", "/", "L", "O", "C", "A", "T", "I", "O", "N", " ", "i",
      "s", "/", "O", " ", "b", "i", "g", "/", "O">>
XmlExample ==
    <<"<", "w", "i", " ", "n", "u", "m", "=", "\"", "1", "\"", " ", "e", "n",
      "t", "i", "t", "y", "=", "\"", "P", "E", "R", "S", "O", "N", "\"", ">",
      "J", "o", "h", "n", "<", "/", "w", "i", ">", " ", "<", "w", "i", " ",
      "n", "u", "m", "=", "\"", "2", "\"", " ", "e", "n", "t", "i", "t", "y",
      "=", "\"", "P", "E", "R", "S", "O", "N", "\"", ">", "S", "m", "i", "t",
      "h", "<", "/", "w", "i", ">", " ", "<", "w", "i", " ", "n", "u", "m",
      "=", "\"", "3", "\"", " ", "e", "n", "t", "i", "t", "y", "=", "\"", "O",
      "\"", ">", "l", "i", "v", "e", "s", "<", "/", "w", "i", ">">>
InlineExample ==
    <<"<", "P", "E", "R", "S", "O", "N", ">", "J", "o", "h", "n", " ", "S",
      "m", "i", "t", "h", "<", "/", "P", "E", "R", "S", "O", "N", ">", " ",
      "l", "i", "v", "e", "s", " ", "i", "n", " ", "<", "L", "O", "C", "A",
      "T", "I", "O", "N", ">", "P", "a", "r", "i", "s", "<", "/", "L", "O",
      "C", "A", "T", "I", "O", "N", ">">>

SlashChunks ==
    {<<"a", "/", "A", " ">>,
     <<"b", "/", "A", " ", "c", "/", "A", " ">>,
     <<"c", "/", "B", " ">>,
     <<"d", "\n">>,
     <<"e", "/", "f", " ">>}

XmlChunks ==
    {<<"<", "w", "i", " ", "n", "u", "m", "=", "\"", "1", "\"", " ", "e", "n", "t", "i", "t", "y", "=", "\"", "A", "\"", ">", "a", "<", "/", "w", "i", ">">>,
     <<"<", "w", "i", " ", "n", "u", "m", "=", "\"", "2", "\"", " ", "e", "n", "t", "i", "t", "y", "=", "\"", "A", "\"", ">", "b", "<", "/", "w", "i", ">">>,
     <<"<", "w", "i", " ", "n", "u", "m", "=", "\"", "3", "\"", " ", "e", "n", "t", "i", "t", "y", "=", "\"", "B", "\"", ">", "c", "<", "/", "w", "i", ">">>,
     <<" ">>,
     <<"<", "w", "i", " ", "n", "u", "m", "=", "\"", "4", "\"", " ", "e", "n", "t", "i", "t", "y", "=", "\"", "B", "\"", ">", "d">>}

InlineChunks ==
    {<<"<", "A", ">", "a", "<", "/", "A", ">">>,
     <<"<", "A", ">", "b", " ", "c", "<", "/", "A", ">">>,
     <<"<", "B", ">", "d", "<", "/", "B", ">">>,
     <<" ", "x", " ">>,
     <<"<", "B", ">", "e", "<", "/", "A", ">">>}

ChunkTexts(chunks) ==
    {Concat(cs) : cs \in UNION {[1..n -> chunks] : n \in 0..MaxChunks}}

\* The tagged texts given to the parser of oformat: texts made of chunks of
\* its grammar, and the three examples.
RawTexts(oformat) ==
    ChunkTexts(IF oformat = "slashTags" THEN SlashChunks
               ELSE IF oformat = "xml" THEN XmlChunks ELSE InlineChunks)
    \cup {SlashExample, XmlExample, InlineExample}

\* ---------------------------------------------------------------- actions

NoClient == [variant |-> "none"]

NoCall ==
    [op |-> "none", variant |-> "none", output_format |-> "none", text |-> <<>>,
     net |-> "none", status |-> 0, payload |-> <<>>, sent |-> FALSE,
     request |-> [input |-> <<>>], created |-> FALSE, closed |-> FALSE,
     outcome |-> "none", exc |-> "none", tagged |-> <<>>, entities |-> <<>>]

\* between: another call was made after the one kept.
NoPin == [set |-> FALSE, text |-> <<>>, entities |-> <<>>, between |-> FALSE]

NotRun == [outcome |-> "none", exc |-> "none", value |-> <<>>]

Init ==
    /\ client = NoClient
    /\ server \in 0..(Len(Replies) - 1)
    /\ last = NoCall
    /\ pin = NoPin
    /\ p_oformat = "inlineXML"
    /\ p_tagged = <<>>
    /\ p_result = NotRun

\* StanfordNERSocket(output_format=...) or StanfordNERHTTP(classifier=...,
\* output_format=...), the other arguments at their defaults.
Construct(variant, output_format, classifier) ==
    /\ client = NoClient
    /\ LET r == IF variant = "socket"
                THEN StanfordNERSocket_init("localhost", DefaultPort, output_format)
                ELSE StanfordNERHTTP_init("localhost", DefaultPort, "/stanford-ner/ner",
                                          classifier, output_format, TRUE)
       IN /\ client' = r.self
          /\ last' = [NoCall EXCEPT !.op = "construct", !.variant = variant,
                                    !.output_format = output_format,
                                    !.outcome = r.outcome, !.exc = r.exc]
    /\ UNCHANGED <<server, pin, p_oformat, p_tagged, p_result>>

\* The record of a call of op with text under env, r being what tag_text did.
CallRecord(op, text, env, r, entities) ==
    [op |-> op, variant |-> client.variant, output_format |-> "none", text |-> text,
     net |-> env.net, status |-> env.status, payload |-> r.payload, sent |-> r.sent,
     request |-> r.request, created |-> r.created, closed |-> r.closed,
     outcome |-> r.outcome, exc |-> r.exc, tagged |-> r.tagged, entities |-> entities]

Envs == IF client.variant = "socket" THEN SocketEnvs ELSE HTTPEnvs

\* A call of text after the one kept in pin.
Later(text, kept) ==
    IF pin.set /\ ~kept /\ text # pin.text THEN [pin EXCEPT !.between = TRUE] ELSE pin

\* client.tag_text(text)
TagText(text) ==
    /\ client # NoClient
    /\ \E env \in Envs :
         \E r \in {tag_text(client, text, env, Reply(server, normalize(text)))} :
            last' = CallRecord("tag_text", text, env, r, <<>>)
    /\ pin' = Later(text, FALSE)
    /\ UNCHANGED <<client, server, p_oformat, p_tagged, p_result>>

\* The server answered the call with tagged text.
Answered(call) == call.net = "replied" /\ call.status \in {0, 200}

\* A get_entities that leaves the format it parsed last in self.oformat.
GetEntities_reformat(text) ==
    /\ client # NoClient
    /\ \E env \in Envs :
         \E r \in {tag_text(client, text, env, Reply(server, normalize(text)))} :
            \E e \in {IF r.outcome = "return"
                      THEN get_entities(client.oformat, r.tagged)
                      ELSE [outcome |-> "raise", exc |-> r.exc, value |-> <<>>]} :
               /\ client' = [client EXCEPT !.oformat = "xml"]
               /\ last' = [CallRecord("get_entities", text, env, r, e.value)
                              EXCEPT !.outcome = e.outcome, !.exc = e.exc]
               /\ \E keep \in IF e.outcome = "return" /\ Answered(env) /\ ~pin.set
                              THEN BOOLEAN ELSE {FALSE} :
                     pin' = IF keep
                            THEN [set |-> TRUE, text |-> text, entities |-> e.value,
                                  between |-> FALSE]
                            ELSE Later(text, FALSE)
    /\ UNCHANGED <<server, p_oformat, p_tagged, p_result>>

\* client.get_entities(text): tag_text, and when it returns, lines 77-87.  The
\* first answered result may be kept in pin.
GetEntities(text) ==
    /\ client # NoClient
    /\ \E env \in Envs :
         \E r \in {tag_text(client, text, env, Reply(server, normalize(text)))} :
            \E e \in {IF r.outcome = "return"
                      THEN get_entities(client.oformat, r.tagged)
                      ELSE [outcome |-> "raise", exc |-> r.exc, value |-> <<>>]} :
               /\ last' = [CallRecord("get_entities", text, env, r, e.value)
                              EXCEPT !.outcome = e.outcome, !.exc = e.exc]
               /\ \E keep \in IF e.outcome = "return" /\ Answered(env) /\ ~pin.set
                              THEN BOOLEAN ELSE {FALSE} :
                     pin' = IF keep
                            THEN [set |-> TRUE, text |-> text, entities |-> e.value,
                                  between |-> FALSE]
                            ELSE Later(text, FALSE)
    /\ UNCHANGED <<client, server, p_oformat, p_tagged, p_result>>

Next ==
    \/ \E variant \in {"socket", "http"}, output_format \in OutputFormats,
          classifier \in Classifiers : Construct(variant, output_format, classifier)
    \/ \E text \in Texts : TagText(text)
    \/ \E text \in Texts : GetEntities(text)

Spec == Init /\ [][Next]_vars

\* The first call of a client, on every short text: what tag_text sends.
NextNormalize ==
    \/ \E variant \in {"socket", "http"}, output_format \in OutputFormats,
          classifier \in Classifiers : Construct(variant, output_format, classifier)
    \/ /\ last.op \in {"none", "construct"}
       /\ \E text \in ShortTexts : TagText(text)

SpecNormalize == Init /\ [][NextNormalize]_vars

\* get_entities on every tagged text: lines 77-87 applied to what tag_text returned.
InitParse ==
    /\ client = NoClient
    /\ server = 0
    /\ last = NoCall
    /\ pin = NoPin
    /\ p_oformat \in Formats
    /\ p_tagged \in RawTexts(p_oformat)
    /\ p_result = NotRun

Extract ==
    /\ p_result = NotRun
    /\ p_result' = get_entities(p_oformat, p_tagged)
    /\ UNCHANGED <<client, server, last, pin, p_oformat, p_tagged>>

NextParse == Extract

SpecParse == InitParse /\ [][NextParse]_vars

\* ---------------------------------------------------------------- claims

Calls == {"tag_text", "get_entities"}

Controls == {"\f", "\n", "\r", "\t", VT}

TransportErrors == {"socket.error", "HTTPException"}

\* C1: a constructor of either class given an output_format that is not one of
\* 'slashTags', 'xml', 'inlineXML' raises InvalidOutputFormat, makes no client
\* and opens no network resource; given one of the three it returns a client
\* with that format; no tag_text or get_entities call raises InvalidOutputFormat.
C1_InvalidOutputFormat ==
    /\ last.op = "construct" =>
         /\ last.output_format \notin {"slashTags", "xml", "inlineXML"} =>
              /\ last.outcome = "raise" /\ last.exc = "InvalidOutputFormat"
              /\ client = NoClient
         /\ last.output_format \in {"slashTags", "xml", "inlineXML"} =>
              /\ last.outcome = "return" /\ last.exc = "none"
              /\ client.variant = last.variant
              /\ client.oformat = last.output_format
         /\ ~last.created /\ ~last.sent
    /\ last.op \in Calls => last.exc # "InvalidOutputFormat"
    /\ client # NoClient => client.oformat \in {"slashTags", "xml", "inlineXML"}

C1_Witness ==
    /\ last.op = "construct" /\ last.variant = "http"
    /\ last.output_format = "SlashTags"
    /\ last.exc = "InvalidOutputFormat"

\* The places where a maximal run of pairs of one type starts, and where it ends.
RunStarts(pairs) ==
    {i \in 1..Len(pairs) : i = 1 \/ pairs[i - 1][1] # pairs[i][1]}

RunEnd(pairs, i) ==
    CHOOSE j \in i..Len(pairs) :
        /\ \A k \in i..j : pairs[k][1] = pairs[i][1]
        /\ j = Len(pairs) \/ pairs[j + 1][1] # pairs[i][1]

\* The tokens i..j with one space between neighbours.
RECURSIVE Spaced(_, _, _)
Spaced(pairs, i, j) ==
    IF i = j THEN pairs[i][2] ELSE pairs[i][2] \o <<" ">> \o Spaced(pairs, i + 1, j)

Rank(S, i) == Cardinality({j \in S : j <= i})

Types(pairs) == {pairs[i][1] : i \in 1..Len(pairs)}

\* The token pairs the grammar of oformat finds in tagged_text.
Tokens(oformat, tagged_text) ==
    IF oformat = "slashTags" THEN slashTags_parse_entities(tagged_text)
    ELSE IF oformat = "xml" THEN xml_parse_entities(tagged_text)
    ELSE inlineXML_parse_entities(tagged_text)

SlashExpected ==
    [t \in {<<"L", "O", "C", "A", "T", "I", "O", "N">>, <<"O">>} |->
        IF t = <<"L", "O", "C", "A", "T", "I", "O", "N">> THEN <<<<"N", "e", "w", " ", "Y", "o", "r", "k">>>> ELSE <<<<"i", "s", " ", "b", "i", "g">>>>]

XmlExpected ==
    [t \in {<<"P", "E", "R", "S", "O", "N">>, <<"O">>} |->
        IF t = <<"P", "E", "R", "S", "O", "N">> THEN <<<<"J", "o", "h", "n", " ", "S", "m", "i", "t", "h">>>> ELSE <<<<"l", "i", "v", "e", "s">>>>]

InlineExpected ==
    [t \in {<<"P", "E", "R", "S", "O", "N">>, <<"L", "O", "C", "A", "T", "I", "O", "N">>} |->
        IF t = <<"P", "E", "R", "S", "O", "N">> THEN <<<<"J", "o", "h", "n", " ", "S", "m", "i", "t", "h">>>>
        ELSE <<<<"P", "a", "r", "i", "s">>>>]

\* C2: for slashTags and xml the result of get_entities has, for every type of
\* the parsed tokens, one string per maximal run of consecutive tokens of that
\* type, in the order of the runs, each the tokens of its run joined by single
\* spaces; the two examples of the specification give the maps it states.
C2_RunLengthGrouping ==
    (p_result.outcome # "none" /\ p_oformat \in {"slashTags", "xml"}) =>
        LET pairs == Tokens(p_oformat, p_tagged)
            v == p_result.value
        IN /\ DOMAIN v = Types(pairs)
           /\ \A t \in DOMAIN v :
                LET runs == {i \in RunStarts(pairs) : pairs[i][1] = t}
                IN /\ Len(v[t]) = Cardinality(runs)
                   /\ \A i \in runs :
                        v[t][Rank(runs, i)] = Spaced(pairs, i, RunEnd(pairs, i))
           /\ (p_oformat = "slashTags" /\ p_tagged = SlashExample) => v = SlashExpected
           /\ (p_oformat = "xml" /\ p_tagged = XmlExample) => v = XmlExpected

\* Two runs of type A with a run of B between them, the first of two tokens.
C2_Witness ==
    /\ p_result.outcome = "return" /\ p_oformat = "slashTags"
    /\ p_tagged = <<"b", "/", "A", " ", "c", "/", "A", " ", "c", "/", "B", " ",
                    "a", "/", "A", " ">>
    /\ p_result.value[<<"A">>] = << <<"b", " ", "c">>, <<"a">> >>
    /\ p_result.value[<<"B">>] = << <<"c">> >>

\* s occurs in text.
Occurs(s, text) == \E pos \in 1..(Len(text) + 1) : HasAt(text, pos, s)

\* C3: for inlineXML the result of get_entities has one entry per
\* <TYPE>content</TYPE> span, unjoined and in order, under the span's type;
\* every entry stands in the text between its tags, so text outside the spans
\* is in no entry and under no key; the example gives the map stated.
C3_InlineSpans ==
    (p_result.outcome # "none" /\ p_oformat = "inlineXML") =>
        LET spans == inlineXML_parse_entities(p_tagged)
            v == p_result.value
        IN /\ DOMAIN v = Types(spans)
           /\ \A t \in DOMAIN v :
                LET at == {i \in 1..Len(spans) : spans[i][1] = t}
                IN /\ Len(v[t]) = Cardinality(at)
                   /\ \A i \in at : v[t][Rank(at, i)] = spans[i][2]
                   /\ \A n \in 1..Len(v[t]) :
                        Occurs(<<"<">> \o t \o <<">">> \o v[t][n] \o <<"<", "/">>
                               \o t \o <<">">>, p_tagged)
           /\ p_tagged = InlineExample => v = InlineExpected

\* Two adjacent spans of type A and text outside a span.
C3_Witness ==
    /\ p_result.outcome = "return" /\ p_oformat = "inlineXML"
    /\ p_tagged = <<"<", "A", ">", "a", "<", "/", "A", ">",
                    "<", "A", ">", "b", " ", "c", "<", "/", "A", ">", " ", "x", " ">>
    /\ DOMAIN p_result.value = {<<"A">>}
    /\ p_result.value[<<"A">>] = << <<"a">>, <<"b", " ", "c">> >>

\* C4: in every format the list of a type in the result of get_entities is the
\* entities of that type, all of them and only them, in the order in which
\* the runs or spans come in the tagged text.
C4_StableGrouping ==
    p_result.outcome # "none" =>
        LET pairs == entity_pairs(p_oformat, p_tagged)
            v == p_result.value
        IN /\ DOMAIN v = Types(pairs)
           /\ \A t \in DOMAIN v :
                v[t] = seconds(SelectSeq(pairs, LAMBDA q : q[1] = t))

\* Two different spans of type A with a span of B between them: A sorts first.
C4_Witness ==
    /\ p_result.outcome = "return" /\ p_oformat = "inlineXML"
    /\ p_tagged = <<"<", "A", ">", "b", " ", "c", "<", "/", "A", ">",
                    "<", "B", ">", "d", "<", "/", "B", ">",
                    "<", "A", ">", "a", "<", "/", "A", ">">>
    /\ p_result.value[<<"A">>] = << <<"b", " ", "c">>, <<"a">> >>

\* C5: the text either tag_text hands to its transport is the text of the
\* call without its form feeds, newlines, carriage returns, tabs and vertical
\* tabs, the other characters in their order, and one newline after them.
C5_Normalization ==
    last.op \in Calls =>
        LET body == SubSeq(last.payload, 1, Len(last.payload) - 1)
        IN /\ Len(last.payload) >= 1
           /\ last.payload[Len(last.payload)] = "\n"
           /\ \A i \in 1..Len(body) : body[i] \notin Controls
           /\ body = SelectSeq(last.text, LAMBDA c : c \notin Controls)
           /\ last.request.input = last.payload

C5_Witness ==
    /\ last.op = "tag_text" /\ last.variant = "http" /\ last.sent
    /\ last.text = <<VT, "a", "\n">>
    /\ last.request.input = <<"a", "\n">>

\* C6: a call whose exchange fails (the connection cannot be opened, the send
\* fails, the server closes without answering or the connection breaks)
\* raises a transport error.
C6_TransportFailureRaises ==
    (last.op \in Calls /\ last.net \in {"refused", "send_error", "peer_closed", "reset"}) =>
        last.outcome = "raise" /\ last.exc \in TransportErrors

\* C7: close() has run on the socket or connection of every call when the
\* call returns or raises.
C7_AlwaysClosed == (last.op \in Calls /\ last.created) => last.closed

\* C8: get_entities raises on no tagged text and in no format: it returns a
\* map from types to non-empty lists, the empty map when the grammar matches
\* nothing.
C8_ParsingNeverRaises ==
    p_result.outcome # "none" =>
        /\ p_result.outcome = "return" /\ p_result.exc = "none"
        /\ \A t \in DOMAIN p_result.value : Len(p_result.value[t]) >= 1
        /\ Tokens(p_oformat, p_tagged) = <<>> <=> p_result.value = <<>>

\* Text that the xml grammar does not match.
C8_Witness ==
    /\ p_result.outcome = "return" /\ p_oformat = "xml"
    /\ p_tagged = SlashExample
    /\ p_result.value = <<>>

\* C9: an answered get_entities of a text gives the map an earlier answered
\* get_entities of that text gave, whatever calls came between, and no step
\* changes the attributes of the client once it is constructed.
C9_Idempotent ==
    /\ [](   (pin.set /\ last.op = "get_entities" /\ last.outcome = "return"
              /\ Answered(last) /\ last.text = pin.text)
          => last.entities = pin.entities)
    /\ [][client # NoClient => client' = client]_vars

C9_Witness ==
    /\ pin.set /\ pin.between /\ pin.entities # <<>>
    /\ last.op = "get_entities" /\ last.outcome = "return" /\ Answered(last)
    /\ last.text = pin.text

\* C10: a call of the HTTP client that the server answers with an error
\* status raises a transport error.
C10_ErrorStatusRaises ==
    (last.op \in Calls /\ last.variant = "http" /\ last.net = "replied"
     /\ last.status >= 400) =>
        last.outcome = "raise" /\ last.exc \in TransportErrors
====
